---- MODULE Spec2Model ----
(***************************************************************************)
(* Span linking of the langsmith callback handler and FlowTrace.           *)
(*                                                                         *)
(* The repository holds two definitions of the callback handler in         *)
(* langsmith.go (lines 57-316 and lines 375-643) and two definitions of    *)
(* FlowTrace (unnamed/part_000 and flow_trace.go).  The variable impl      *)
(* fixes which pair a behaviour runs: impl = 1 is langsmith.go 57-316 with *)
(* part_000, impl = 2 is langsmith.go 375-643 with flow_trace.go.          *)
(*                                                                         *)
(* Strings are sequences of character codes, so that prefixes and the      *)
(* lexicographic order of dotted orders are those of the Go strings.       *)
(***************************************************************************)
EXTENDS Integers, Sequences, FiniteSets, TLC

VARIABLES
    impl,     \* which definitions of the handler and of FlowTrace are built
    now,      \* the wall clock read by time.Now(): [sec, us]
    heap,     \* the LangsmithState objects allocated so far, by address
    ctxs,     \* the contexts the host program holds
    invs,     \* the traced operations of the host: each start call and its end
    calls,    \* the sink calls made so far, in order
    streams,  \* the streams handed to the streaming handlers, and their goroutines
    codec,    \* the last SpanToString / StringToSpan round trip
    faults,   \* unusual inputs so far: nil RunInfo, marshal errors, sink failures, ...
    cancelled \* the host has cancelled the context its calls derive from

vars == <<impl, now, heap, ctxs, invs, calls, streams, codec, faults, cancelled>>

-----------------------------------------------------------------------------
(* Bounds of the model. *)

MaxSpans == 3          \* traced operations started in one behaviour
MaxStreamSpans == 2    \* the same, in behaviours with streaming handlers
MaxChunks == 2         \* chunks a stream yields before it ends
MaxStreams == 2        \* streams handed to the streaming handlers in one behaviour
MaxSec == 1            \* seconds the clock advances
MaxUs == 1             \* microseconds the clock advances within a second
MaxFaults == 1         \* unusual inputs in one behaviour
MaxCalls == 4          \* sink calls in one behaviour
MaxCancelSpans == 1    \* traced operations in behaviours with a cancellation
MaxLiveSpans == 1      \* streaming spans in behaviours with fair goroutines

-----------------------------------------------------------------------------
(* Characters and strings. *)

\* '.', 'Z' and '0' of the dotted order; '"' and '\' of a JSON string.
CharDot == 46
CharZ == 90
Char0 == 48
CharQuote == 34
CharBackslash == 92

Empty == <<>>

RECURSIVE IsPrefix(_, _)
IsPrefix(p, s) ==
    IF p = <<>> THEN TRUE
    ELSE IF s = <<>> THEN FALSE
    ELSE Head(p) = Head(s) /\ IsPrefix(Tail(p), Tail(s))

\* Go's string comparison: byte-wise lexicographic, a proper prefix is smaller.
RECURSIVE StrLess(_, _)
StrLess(a, b) ==
    IF b = <<>> THEN FALSE
    ELSE IF a = <<>> THEN TRUE
    ELSE IF Head(a) # Head(b) THEN Head(a) < Head(b)
    ELSE StrLess(Tail(a), Tail(b))

\* The run ids uuid.New().String() can return: distinct strings in no
\* particular order.  One character stands for the 36 of a UUID.
RunIDs == { <<96 + i>> : i \in 1..(MaxSpans + 1) }

\* The trace id a caller forces with WithTraceID.
ExplicitTrace == <<84>>

-----------------------------------------------------------------------------
(* Time and the dotted order. *)

\* The times the clock can show: a second and a microsecond in it.
Times == [sec : 0..MaxSec, us : 0..MaxUs]

TimeLeq(a, b) == a.sec < b.sec \/ (a.sec = b.sec /\ a.us <= b.us)

TimeLess(a, b) == TimeLeq(a, b) /\ a # b

TwoDigits(n) == <<Char0 + ((n \div 10) % 10), Char0 + (n % 10)>>

\* The "000000" that ends the layout.  Go's time.Format takes a run of 0s as
\* fractional seconds only after a '.' or ',': here it follows "05" directly
\* and is copied to the output as it stands.
LayoutTail == <<Char0, Char0, Char0, Char0, Char0, Char0>>

\* run.StartTime.Format("20060102T150405000000").  The clock of the model
\* stays within one minute, so "20060102T1504" gives the same thirteen
\* characters for every time and is left out; "05" is the second.
Format(t) == TwoDigits(t.sec) \o LayoutTail

\* fmt.Sprintf("%sZ%s", nowTime, runID)
Segment(t, runID) == Format(t) \o <<CharZ>> \o runID

\* fmt.Sprintf("%s.%sZ%s", parent, nowTime, runID) when the parent's dotted
\* order is not empty, the segment alone otherwise.
DottedOrderOf(parentDottedOrder, t, runID) ==
    IF parentDottedOrder # Empty
    THEN parentDottedOrder \o <<CharDot>> \o Segment(t, runID)
    ELSE Segment(t, runID)

-----------------------------------------------------------------------------
(* Trace options, trace state and contexts. *)

\* traceOptions; set = FALSE is the nil pointer ctx.Value returns when
\* SetTrace was never called.
NoOpts ==
    [set |-> FALSE, SessionName |-> "", TraceID |-> Empty,
     ParentID |-> Empty, ParentDottedOrder |-> Empty]

\* The options a caller passes to SetTrace: WithSessionName("proj"), or
\* WithTraceID(ExplicitTrace).
OptChoices ==
    { [set |-> TRUE, SessionName |-> "proj", TraceID |-> Empty,
       ParentID |-> Empty, ParentDottedOrder |-> Empty],
      [set |-> TRUE, SessionName |-> "", TraceID |-> ExplicitTrace,
       ParentID |-> Empty, ParentDottedOrder |-> Empty] }

\* LangsmithState{}
ZeroState == [TraceID |-> Empty, ParentRunID |-> Empty, ParentDottedOrder |-> Empty]

\* A context: the trace options and the address of the LangsmithState it
\* carries (0: none).
Background == [opts |-> NoOpts, st |-> 0]

\* The nil context FlowTrace.StartSpan returns with an error.
NilCtx == [opts |-> NoOpts, st |-> -1]

\* SetTrace: a derived context with fresh options; the state is inherited.
SetTraceCtx(ctx, o) == [ctx EXCEPT !.opts = o]

\* An initial state that ignores the options.
InitState_zero(opts) == ZeroState

\* The initial state getOrInitState builds from the options.
InitState(opts) ==
    [TraceID |-> opts.TraceID, ParentRunID |-> opts.ParentID,
     ParentDottedOrder |-> opts.ParentDottedOrder]

\* getOrInitState: the context's own state object when it has one, else a
\* new object built from the options, carried by a derived context.
GetOrInitState(ctx, h) ==
    IF ctx.st # 0
    THEN [ctx |-> ctx, heap |-> h, addr |-> ctx.st]
    ELSE [ctx |-> [ctx EXCEPT !.st = Len(h) + 1],
          heap |-> Append(h, InitState(ctx.opts)),
          addr |-> Len(h) + 1]

\* if state.TraceID == "" { state.TraceID = runID }: a write through the
\* pointer, seen by every context that carries the same object.
SetTraceIDIfEmpty(h, a, runID) ==
    IF h[a].TraceID = Empty THEN [h EXCEPT ![a].TraceID = runID] ELSE h

-----------------------------------------------------------------------------
(* The sink. *)

\* What a sink call can do: succeed, fail, or (CreateRun) succeed with a
\* response body whose dotted_order differs from the one sent.
SinkOutcomes == {"ok", "err", "echo"}

FaultCost(o) == IF o = "ok" THEN 0 ELSE 1

\* The dotted_order of a response body that rewrites it.
EchoedOrder == <<CharZ>>

NoRun ==
    [ID |-> Empty, TraceID |-> Empty, ParentRunID |-> Empty, DottedOrder |-> Empty,
     SessionName |-> "", StartTime |-> [sec |-> 0, us |-> 0], Inputs |-> <<>>]

\* The context a handler hands to the sink: its own ctx argument (or one
\* derived from it), or context.Background().
SinkCtxs == {"ctx", "background"}

\* ctx.Err() # nil: a context derived from the host's is done once the host
\* has cancelled; context.Background() never is.
Done(c) == c = "ctx" /\ cancelled

\* langsmithClient.CreateRun: http.NewRequestWithContext(ctx, ...) and
\* httpClient.Do; a done context makes Do return its error.  An error leaves
\* the run as it was; on success the response body is decoded into the
\* caller's run object.
CreateRun(c, run, outcome) ==
    [err |-> Done(c) \/ outcome = "err",
     run |-> IF ~Done(c) /\ outcome = "echo"
             THEN [run EXCEPT !.DottedOrder = EchoedOrder] ELSE run,
     ctx |-> c, done |-> Done(c)]

\* langsmithClient.UpdateRun
UpdateRun(c, outcome) == [err |-> Done(c) \/ outcome # "ok", ctx |-> c, done |-> Done(c)]

\* The record of a sink call: the run as it was sent (run) and as the call
\* left it (resp), or the id patched.  inv is the traced operation whose
\* handler made the call, by is the handler, ctx the context it handed to the
\* sink and done whether that context was done by then.
CreateCall(inv, by, run, res) ==
    [op |-> "CreateRun", inv |-> inv, by |-> by, id |-> run.ID, run |-> run,
     resp |-> res.run, err |-> res.err, ctx |-> res.ctx, done |-> res.done]

UpdateCall(inv, by, id, res) ==
    [op |-> "UpdateRun", inv |-> inv, by |-> by, id |-> id, run |-> NoRun,
     resp |-> NoRun, err |-> res.err, ctx |-> res.ctx, done |-> res.done]

UsedIDs == { invs[i].id : i \in 1..Len(invs) }

-----------------------------------------------------------------------------
(* The traced operations of the host. *)

\* One traced operation: the start handler called (op), whether its RunInfo
\* is nil, the context given (in) and returned (out; ret once the start has
\* returned, err when it returned an error), the run id minted (Empty: none),
\* the state object read (addr; 0: none) and its value at entry (read), the
\* state published (pub, its address, 0: none; pubval, its value when
\* published), the clock the start read (t), and the end call (ended, endout:
\* the context it returned).
NewInv(op, infoNil, in) ==
    [op |-> op, infoNil |-> infoNil, in |-> in, out |-> in, ret |-> TRUE, err |-> FALSE,
     id |-> Empty, addr |-> 0, read |-> ZeroState, pub |-> 0, pubval |-> ZeroState,
     t |-> now, ended |-> FALSE, endout |-> NilCtx]

\* The start returned `out` without minting a run.
Returned(inv, out) == [inv EXCEPT !.out = out]

\* The start read state object a (value read), minted id and published newState at pub.
Minted(inv, id, a, read, out, pub, newState) ==
    [inv EXCEPT !.id = id, !.addr = a, !.read = read, !.out = out,
                !.pub = pub, !.pubval = newState]

Ended(i, out) == [invs EXCEPT ![i].ended = TRUE, ![i].endout = out]

-----------------------------------------------------------------------------
(* The callback handler: OnStart, OnEnd, OnError. *)

\* The Run a span start builds (langsmith.go 77-98).
BuildRun(state, opts, runID, t, inputs) ==
    [ID |-> runID,
     TraceID |-> state.TraceID,
     ParentRunID |-> state.ParentRunID,
     DottedOrder |-> DottedOrderOf(state.ParentDottedOrder, t, runID),
     SessionName |-> opts.SessionName,
     StartTime |-> t,
     Inputs |-> inputs]

\* OnStart past the nil check (langsmith.go 62-110, and 402-450).
OnStartTraced(ctx, marshalOK, runID, outcome) ==
    LET g == GetOrInitState(ctx, heap)
        a == g.addr
        read == g.heap[a]
        me == Len(invs) + 1
        inv == NewInv("OnStart", FALSE, ctx)
    IN  IF ~marshalOK
        THEN \* marshal input error: the derived context is returned
             /\ faults' = faults + 1
             /\ heap' = g.heap
             /\ ctxs' = ctxs \cup {g.ctx}
             /\ invs' = Append(invs, Returned(inv, g.ctx))
             /\ UNCHANGED calls
        ELSE LET h1 == SetTraceIDIfEmpty(g.heap, a, runID)
                 state == h1[a]
                 run == BuildRun(state, g.ctx.opts, runID, now, <<0>>)
                 res == CreateRun("ctx", run, outcome)
                 newState == [TraceID |-> state.TraceID,
                              ParentRunID |-> runID,
                              ParentDottedOrder |-> res.run.DottedOrder]
                 h2 == Append(h1, newState)
                 out == [g.ctx EXCEPT !.st = Len(h2)]
             IN  /\ runID \notin UsedIDs
                 /\ faults' = faults + FaultCost(outcome)
                 /\ heap' = h2
                 /\ calls' = Append(calls, CreateCall(me, "OnStart", run, res))
                 /\ ctxs' = ctxs \cup {out}
                 /\ invs' = Append(invs, Minted(inv, runID, a, read, out, Len(h2), newState))

\* A handler that looks up the trace state before it tests info: the context
\* it returns for a nil info is the derived one.
NilInfo_derived(op, ctx) ==
    LET g == GetOrInitState(ctx, heap)
    IN  /\ invs' = Append(invs, Returned(NewInv(op, TRUE, ctx), g.ctx))
        /\ heap' = g.heap
        /\ ctxs' = ctxs \cup {g.ctx}
        /\ faults' = faults + 1
        /\ UNCHANGED calls

\* if info == nil { return ctx }
NilInfo(op, ctx) ==
    /\ invs' = Append(invs, NewInv(op, TRUE, ctx))
    /\ faults' = faults + 1
    /\ UNCHANGED <<heap, ctxs, calls>>

OnStart(ctx, infoNil, marshalOK, runID, outcome) ==
    /\ IF infoNil
       THEN NilInfo("OnStart", ctx)
       ELSE OnStartTraced(ctx, marshalOK, runID, outcome)
    /\ UNCHANGED <<impl, cancelled, now, streams, codec>>

\* An end handler may be called for operation i: its start has returned and
\* it has not ended yet.  The framework hands it the context the start returned.
CanEnd(i, ops) ==
    /\ i \in 1..Len(invs)
    /\ invs[i].op \in ops
    /\ invs[i].ret
    /\ ~invs[i].ended

HandlerOps == {"OnStart", "OnStartWithStreamInput"}

\* The operations whose end the framework reports to the handler: those it
\* saw start, and those whose start it did not see.
EndOps == HandlerOps \cup {"Unseen"}

\* The framework runs an operation whose start the handler was not called
\* for, on a context that carries no trace state; the end handlers then find
\* `!ok || state == nil`.
Unseen(ctx) ==
    /\ ctx.st = 0
    /\ invs' = Append(invs, NewInv("Unseen", FALSE, ctx))
    /\ faults' = faults + 1
    /\ UNCHANGED <<impl, cancelled, now, heap, ctxs, calls, streams, codec>>

\* OnEnd (langsmith.go 113-139, and 453-479).
OnEnd(i, marshalOK, outcome) ==
    LET ctx == invs[i].out
    IN  /\ CanEnd(i, EndOps)
        /\ invs' = Ended(i, ctx)
        /\ IF invs[i].infoNil
           THEN UNCHANGED <<calls, faults>>
           ELSE IF ctx.st = 0
           THEN UNCHANGED <<calls, faults>>
           ELSE IF ~marshalOK
           THEN faults' = faults + 1 /\ UNCHANGED calls
           ELSE LET res == UpdateRun("ctx", outcome)
                IN  /\ calls' = Append(calls,
                          UpdateCall(i, "OnEnd", heap[ctx.st].ParentRunID, res))
                    /\ faults' = faults + FaultCost(outcome)
        /\ UNCHANGED <<impl, cancelled, now, heap, ctxs, streams, codec>>

\* An OnError that does not test whether the context carries a state: it
\* patches a run with whatever id it finds, the empty one without a state.
OnError_blind(i, outcome) ==
    LET ctx == invs[i].out
        res == UpdateRun("ctx", outcome)
    IN  /\ CanEnd(i, EndOps)
        /\ invs' = Ended(i, ctx)
        /\ IF invs[i].infoNil
           THEN UNCHANGED <<calls, faults>>
           ELSE /\ calls' = Append(calls,
                      UpdateCall(i, "OnError",
                                 IF ctx.st = 0 THEN Empty ELSE heap[ctx.st].ParentRunID, res))
                /\ faults' = faults + FaultCost(outcome)
        /\ UNCHANGED <<impl, cancelled, now, heap, ctxs, streams, codec>>

\* OnError (langsmith.go 141-163, and 481-503).
OnError(i, outcome) ==
    LET ctx == invs[i].out
    IN  /\ CanEnd(i, EndOps)
        /\ invs' = Ended(i, ctx)
        /\ IF invs[i].infoNil
           THEN UNCHANGED <<calls, faults>>
           ELSE IF ctx.st = 0
           THEN UNCHANGED <<calls, faults>>
           ELSE LET res == UpdateRun("ctx", outcome)
                IN  /\ calls' = Append(calls,
                          UpdateCall(i, "OnError", heap[ctx.st].ParentRunID, res))
                    /\ faults' = faults + FaultCost(outcome)
        /\ UNCHANGED <<impl, cancelled, now, heap, ctxs, streams, codec>>

-----------------------------------------------------------------------------
(* The streaming handlers and their goroutines. *)

\* A stream handed to a streaming handler of operation inv: it yields n chunks
\* (numbered 1..n) and then term, io.EOF or another error.  got are the chunks
\* received so far.  pc is where the goroutine draining it stands: "none" (no
\* goroutine), "recv" (in the loop), "done"; exit is how it ended: "return",
\* or "panic" (recovered by the deferred function).
\* addr is the state object the goroutine captured; run is the Run object it
\* shares with the handler; pdo is the variable parentDottedOrder of the second
\* definition, shared likewise.
NewStream(inv, dir, n, term, pc, addr, run) ==
    [inv |-> inv, dir |-> dir, n |-> n, term |-> term, got |-> <<>>, closed |-> pc = "none",
     pc |-> pc, addr |-> addr, run |-> run, pdo |-> Empty, exit |-> ""]

StreamTerms == {"eof", "err"}

TermCost(term) == IF term = "eof" THEN 0 ELSE 1

\* What extractModelInput / extractModelOutput do with the chunks: return
\* them aggregated with a non-nil extra map ("ok") or with a nil one ("nil"),
\* return an error ("err"), or panic ("panic").
AggOutcomes == {"ok", "nil", "err", "panic"}

AggCost(agg) == IF agg \in {"ok", "nil"} THEN 0 ELSE 1

\* if info == nil { input.Close(); return ctx }
NilInfoStream(op, ctx, dir, n, term) ==
    /\ invs' = Append(invs, NewInv(op, TRUE, ctx))
    /\ streams' = Append(streams, NewStream(Len(invs) + 1, dir, n, term, "none", 0, NoRun))
    /\ faults' = faults + 1 + TermCost(term)
    /\ UNCHANGED <<heap, ctxs, calls>>

\* OnStartWithStreamInput, first definition (langsmith.go 166-247), up to and
\* including the go statement.
OnStartWithStreamInput(ctx, infoNil, runID, n, term) ==
    /\ impl = 1
    /\ IF infoNil
       THEN NilInfoStream("OnStartWithStreamInput", ctx, "in", n, term)
       ELSE LET g == GetOrInitState(ctx, heap)
                a == g.addr
                h1 == SetTraceIDIfEmpty(g.heap, a, runID)
                state == h1[a]
                \* ParentRunID and Inputs are set by the goroutine
                run == [BuildRun(state, g.ctx.opts, runID, now, <<>>)
                            EXCEPT !.ParentRunID = Empty]
                inv == NewInv("OnStartWithStreamInput", FALSE, ctx)
            IN  /\ runID \notin UsedIDs
                /\ heap' = h1
                /\ invs' = Append(invs,
                      [Minted(inv, runID, a, g.heap[a], g.ctx, 0, ZeroState) EXCEPT !.ret = FALSE])
                /\ streams' = Append(streams,
                      NewStream(Len(invs) + 1, "in", n, term, "recv", a, run))
                /\ faults' = faults + TermCost(term)
                /\ UNCHANGED <<ctxs, calls>>
    /\ UNCHANGED <<impl, cancelled, now, codec>>

\* OnStartWithStreamInput, second definition (langsmith.go 506-578), up to and
\* including the go statement.
OnStartWithStreamInput_2(ctx, infoNil, runID, n, term) ==
    /\ impl = 2
    /\ IF infoNil
       THEN NilInfoStream("OnStartWithStreamInput", ctx, "in", n, term)
       ELSE LET g == GetOrInitState(ctx, heap)
                a == g.addr
                h1 == SetTraceIDIfEmpty(g.heap, a, runID)
                inv == NewInv("OnStartWithStreamInput", FALSE, ctx)
            IN  /\ runID \notin UsedIDs
                /\ heap' = h1
                /\ invs' = Append(invs,
                      [Minted(inv, runID, a, g.heap[a], g.ctx, 0, ZeroState) EXCEPT !.ret = FALSE])
                /\ streams' = Append(streams,
                      NewStream(Len(invs) + 1, "in", n, term, "recv", a, NoRun))
                /\ faults' = faults + TermCost(term)
                /\ UNCHANGED <<ctxs, calls>>
    /\ UNCHANGED <<impl, cancelled, now, codec>>

\* The dotted order the handler reads when it builds newState: run.DottedOrder
\* of the Run object (first definition, line 252), the variable
\* parentDottedOrder (second definition, line 583).  The goroutine writes both
\* (the first when CreateRun decodes the response into the Run) with no
\* synchronisation, so the value read is the one of the moment.
PublishedOrder(k) == IF impl = 1 THEN streams[k].run.DottedOrder ELSE streams[k].pdo

\* A handler that returns only when its goroutine has ended.
OnStartWithStreamInput_join(k) ==
    LET i == streams[k].inv
        a == invs[i].addr
        newState == [TraceID |-> heap[a].TraceID,
                     ParentRunID |-> invs[i].id,
                     ParentDottedOrder |-> PublishedOrder(k)]
        h2 == Append(heap, newState)
        out == [invs[i].out EXCEPT !.st = Len(h2)]
    IN  /\ k \in 1..Len(streams)
        /\ streams[k].dir = "in"
        /\ streams[k].pc = "done"
        /\ ~invs[i].ret
        /\ heap' = h2
        /\ ctxs' = ctxs \cup {out}
        /\ invs' = [invs EXCEPT ![i].ret = TRUE, ![i].out = out,
                                ![i].pub = Len(h2), ![i].pubval = newState]
        /\ UNCHANGED <<impl, cancelled, now, calls, streams, codec, faults>>

\* OnStartWithStreamInput from the go statement to the return (langsmith.go
\* 249-254, and 580-585), for the stream k it started.
OnStartWithStreamInput_return(k) ==
    LET i == streams[k].inv
        a == invs[i].addr
        newState == [TraceID |-> heap[a].TraceID,
                     ParentRunID |-> invs[i].id,
                     ParentDottedOrder |-> PublishedOrder(k)]
        h2 == Append(heap, newState)
        out == [invs[i].out EXCEPT !.st = Len(h2)]
    IN  /\ k \in 1..Len(streams)
        /\ streams[k].dir = "in"
        /\ ~invs[i].ret
        /\ heap' = h2
        /\ ctxs' = ctxs \cup {out}
        /\ invs' = [invs EXCEPT ![i].ret = TRUE, ![i].out = out,
                                ![i].pub = Len(h2), ![i].pubval = newState]
        /\ UNCHANGED <<impl, cancelled, now, calls, streams, codec, faults>>

\* One turn of the goroutine's loop that receives a chunk:
\* chunk, err := Recv(); inputs = append(inputs, chunk).
Recv(k) ==
    /\ k \in 1..Len(streams)
    /\ streams[k].pc = "recv"
    /\ Len(streams[k].got) < streams[k].n
    /\ streams' = [streams EXCEPT ![k].got = Append(@, Len(@) + 1)]
    /\ UNCHANGED <<impl, cancelled, now, heap, ctxs, invs, calls, codec, faults>>

\* The last turn of the loop: Recv() returns io.EOF or an error after the
\* stream's chunks, and the loop is left (either way).
Drained(k) == streams[k].pc = "recv" /\ Len(streams[k].got) = streams[k].n

\* A goroutine whose deferred function does not close the stream.
Closed_leak(k, run, pdo) ==
    [streams EXCEPT ![k].pc = "done", ![k].run = run, ![k].pdo = pdo, ![k].exit = "return"]

\* The goroutine ends: the deferred function recovers a panic and closes the stream.
Closed(k, run, pdo) ==
    [streams EXCEPT ![k].pc = "done", ![k].closed = TRUE, ![k].run = run, ![k].pdo = pdo,
                    ![k].exit = "return"]

\* The goroutine panics: the deferred function finds recover() # nil, logs
\* the stack and closes the stream.
Recovered(k) == [Closed(k, streams[k].run, streams[k].pdo) EXCEPT ![k].exit = "panic"]

\* The input goroutine from the end of the stream on, first definition
\* (langsmith.go 212-246).
InputDrained(k, agg, outcome) ==
    LET st == streams[k]
        run == [st.run EXCEPT !.ParentRunID = heap[st.addr].ParentRunID,
                              !.Inputs = st.got]
        res == CreateRun("ctx", run, outcome)
    IN  /\ impl = 1
        /\ k \in 1..Len(streams)
        /\ st.dir = "in" /\ Drained(k)
        /\ IF agg \in {"err", "panic"}
           THEN /\ streams' = IF agg = "panic" THEN Recovered(k) ELSE Closed(k, st.run, st.pdo)
                /\ faults' = faults + 1
                /\ UNCHANGED calls
           ELSE /\ streams' = Closed(k, res.run, st.pdo)
                /\ calls' = Append(calls, CreateCall(st.inv, "OnStartWithStreamInput", run, res))
                /\ faults' = faults + FaultCost(outcome)
        /\ UNCHANGED <<impl, cancelled, now, heap, ctxs, invs, codec>>

\* The input goroutine from the end of the stream on, second definition
\* (langsmith.go 535-577):
\* extra["model_conf"] = modelConf panics when extra is a nil map.
InputDrained_2(k, agg, outcome) ==
    LET st == streams[k]
        i == st.inv
        state == heap[st.addr]
        run == BuildRun(state, invs[i].out.opts, invs[i].id, now, st.got)
        res == CreateRun("ctx", run, outcome)
    IN  /\ impl = 2
        /\ k \in 1..Len(streams)
        /\ st.dir = "in" /\ Drained(k)
        /\ IF agg \in {"err", "panic", "nil"}
           THEN /\ streams' = IF agg = "err" THEN Closed(k, st.run, st.pdo) ELSE Recovered(k)
                /\ faults' = faults + AggCost(agg)
                /\ UNCHANGED calls
           ELSE /\ streams' = Closed(k, res.run, run.DottedOrder)
                /\ calls' = Append(calls, CreateCall(i, "OnStartWithStreamInput", run, res))
                /\ faults' = faults + FaultCost(outcome)
        /\ UNCHANGED <<impl, cancelled, now, heap, ctxs, invs, codec>>

\* OnEndWithStreamOutput (langsmith.go 258-316, and 589-643).
OnEndWithStreamOutput(i, n, term) ==
    LET ctx == invs[i].out
        traced == ~invs[i].infoNil /\ ctx.st # 0
    IN  /\ CanEnd(i, EndOps)
        /\ invs' = Ended(i, ctx)
        /\ streams' = Append(streams,
              NewStream(i, "out", n, term, IF traced THEN "recv" ELSE "none", ctx.st, NoRun))
        /\ faults' = faults + TermCost(term)
        /\ UNCHANGED <<impl, cancelled, now, heap, ctxs, calls, codec>>

\* An output goroutine that hands the handler's own ctx to UpdateRun.
OutputDrained_ctx(k, agg, outcome) ==
    LET st == streams[k]
        res == UpdateRun("ctx", outcome)
        fails == agg \in {"err", "panic"} \/ (impl = 2 /\ agg = "nil")
    IN  /\ k \in 1..Len(streams)
        /\ st.dir = "out" /\ Drained(k)
        /\ streams' = IF fails /\ agg # "err" THEN Recovered(k) ELSE Closed(k, st.run, st.pdo)
        /\ IF fails
           THEN /\ faults' = faults + AggCost(agg)
                /\ UNCHANGED calls
           ELSE /\ calls' = Append(calls,
                      UpdateCall(st.inv, "OnEndWithStreamOutput", heap[st.addr].ParentRunID, res))
                /\ faults' = faults + FaultCost(outcome)
        /\ UNCHANGED <<impl, cancelled, now, heap, ctxs, invs, codec>>

\* An output goroutine that drains the stream and ends without patching the run.
OutputDrained_silent(k, agg, outcome) ==
    LET st == streams[k]
    IN  /\ k \in 1..Len(streams)
        /\ st.dir = "out" /\ Drained(k)
        /\ streams' = Closed(k, st.run, st.pdo)
        /\ faults' = faults + AggCost(agg)
        /\ UNCHANGED <<impl, cancelled, now, heap, ctxs, invs, calls, codec>>

\* The output goroutine from the end of the stream on (langsmith.go 280-312,
\* and 611-639; in
\* the second definition extra["model_usage"] = usage panics on a nil map).
OutputDrained(k, agg, outcome) ==
    LET st == streams[k]
        \* c.cli.UpdateRun(context.Background(), ...)
        res == UpdateRun("background", outcome)
        fails == agg \in {"err", "panic"} \/ (impl = 2 /\ agg = "nil")
    IN  /\ k \in 1..Len(streams)
        /\ st.dir = "out" /\ Drained(k)
        /\ streams' = IF fails /\ agg # "err" THEN Recovered(k) ELSE Closed(k, st.run, st.pdo)
        /\ IF fails
           THEN /\ faults' = faults + AggCost(agg)
                /\ UNCHANGED calls
           ELSE /\ calls' = Append(calls,
                      UpdateCall(st.inv, "OnEndWithStreamOutput", heap[st.addr].ParentRunID, res))
                /\ faults' = faults + FaultCost(outcome)
        /\ UNCHANGED <<impl, cancelled, now, heap, ctxs, invs, codec>>

-----------------------------------------------------------------------------
(* FlowTrace: StartSpan and FinishSpan. *)

\* The state argument of StartSpan: a nil pointer (0) becomes a new
\* LangsmithState{}; otherwise the caller's object is used as it is.
StateArg(stateArg, h) ==
    IF stateArg = 0
    THEN [heap |-> Append(h, ZeroState), addr |-> Len(h) + 1]
    ELSE [heap |-> h, addr |-> stateArg]

\* StartSpan from the state object at address a of heap h1.
StartSpanFrom(ctx, h1, a, read, runID, outcome) ==
    LET state == h1[a]
        run == BuildRun(state, ctx.opts, runID, now, <<>>)
        res == CreateRun("ctx", run, outcome)
        me == Len(invs) + 1
        inv == NewInv("StartSpan", FALSE, ctx)
        newState == [TraceID |-> state.TraceID,
                     ParentRunID |-> runID,
                     ParentDottedOrder |-> res.run.DottedOrder]
        h2 == Append(h1, newState)
        out == [ctx EXCEPT !.st = Len(h2)]
    IN  /\ runID \notin UsedIDs
        /\ faults' = faults + FaultCost(outcome)
        /\ calls' = Append(calls, CreateCall(me, "StartSpan", run, res))
        /\ IF res.err
           THEN \* return nil, "", err
                /\ heap' = h1
                /\ ctxs' = ctxs
                /\ invs' = Append(invs,
                      [Minted(inv, runID, a, read, NilCtx, 0, ZeroState) EXCEPT !.err = TRUE])
           ELSE /\ heap' = h2
                /\ ctxs' = ctxs \cup {out}
                /\ invs' = Append(invs, Minted(inv, runID, a, read, out, Len(h2), newState))
        /\ UNCHANGED <<impl, cancelled, now, streams, codec>>

\* FlowTrace.StartSpan of unnamed/part_000: the trace id is the state's, as it is.
StartSpan(ctx, stateArg, runID, outcome) ==
    LET s == StateArg(stateArg, heap)
    IN  /\ impl = 1
        /\ StartSpanFrom(ctx, s.heap, s.addr, s.heap[s.addr], runID, outcome)

\* FlowTrace.StartSpan of flow_trace.go: an empty trace id is set to the run id,
\* in the caller's object.
StartSpan_flow_trace(ctx, stateArg, runID, outcome) ==
    LET s == StateArg(stateArg, heap)
    IN  /\ impl = 2
        /\ StartSpanFrom(ctx, SetTraceIDIfEmpty(s.heap, s.addr, runID), s.addr,
                         s.heap[s.addr], runID, outcome)

\* FlowTrace.FinishSpan(ctx, runID) with what StartSpan returned.
FinishSpan(i, outcome) ==
    LET nilCtx == invs[i].out = NilCtx
        res == UpdateRun("ctx", IF nilCtx THEN "err" ELSE outcome)
    IN  /\ CanEnd(i, {"StartSpan"})
        /\ invs' = Ended(i, invs[i].out)
        /\ calls' = Append(calls,
              UpdateCall(i, "FinishSpan", IF invs[i].err THEN Empty ELSE invs[i].id, res))
        /\ faults' = faults + (IF nilCtx THEN 0 ELSE FaultCost(outcome))
        /\ UNCHANGED <<impl, cancelled, now, heap, ctxs, streams, codec>>

-----------------------------------------------------------------------------
(* The serialized span handle: SpanToString and StringToSpan. *)

\* GetState(ctx): the context's state object, nil (0) when it carries none.
GetState(ctx) == ctx.st

\* The fields of LangsmithState a JSON encoder sees, with their keys.  The
\* struct of langsmith.go 49-53 exports its three fields and tags them;
\* flow_trace.go reads state.traceID, state.parentRunID and
\* state.parentDottedOrder, fields that are not exported, which sonic (like
\* encoding/json) neither writes nor reads.
JSONFields ==
    IF impl = 1
    THEN <<"trace_id", "parent_run_id", "parent_dotted_order">>
    ELSE <<>>

FieldOf(state, key) ==
    CASE key = "trace_id" -> state.TraceID
      [] key = "parent_run_id" -> state.ParentRunID
      [] key = "parent_dotted_order" -> state.ParentDottedOrder

\* A JSON string literal's body: '"' and '\' are written with a '\' before them.
RECURSIVE Escape(_)
Escape(str) ==
    IF str = <<>> THEN <<>>
    ELSE IF Head(str) \in {CharQuote, CharBackslash}
         THEN <<CharBackslash, Head(str)>> \o Escape(Tail(str))
         ELSE <<Head(str)>> \o Escape(Tail(str))

RECURSIVE Unescape(_)
Unescape(lit) ==
    IF lit = <<>> THEN <<>>
    ELSE IF Head(lit) = CharBackslash /\ Len(lit) >= 2
         THEN <<lit[2]>> \o Unescape(Tail(Tail(lit)))
         ELSE <<Head(lit)>> \o Unescape(Tail(lit))

\* sonic.Marshal(state): the object's members, key and string literal, in
\* field order.  text = FALSE is the Go string "".
Marshal(state) ==
    [text |-> TRUE,
     members |-> [j \in 1..Len(JSONFields) |->
                    [key |-> JSONFields[j], lit |-> Escape(FieldOf(state, JSONFields[j]))]]]

EmptyString == [text |-> FALSE, members |-> <<>>]

\* The value of the member named key, Empty when the object has none or the
\* struct has no such field to decode into.
Member(val, key) ==
    IF \E j \in 1..Len(val.members) :
          val.members[j].key = key /\ \E f \in 1..Len(JSONFields) : JSONFields[f] = key
    THEN Unescape(val.members[CHOOSE j \in 1..Len(val.members) : val.members[j].key = key].lit)
    ELSE Empty

\* sonic.Unmarshal([]byte(val), state) into a LangsmithState{}
Unmarshal(val) ==
    [TraceID |-> Member(val, "trace_id"),
     ParentRunID |-> Member(val, "parent_run_id"),
     ParentDottedOrder |-> Member(val, "parent_dotted_order")]

\* FlowTrace.SpanToString(ctx)
SpanToStringOf(ctx, h) ==
    IF GetState(ctx) = 0 THEN EmptyString ELSE Marshal(h[GetState(ctx)])

\* The round trip so far: the context serialized, the string, and the state
\* StringToSpan gave back (back: its address, 0 for nil, -1 before the call).
SpanToString(ctx) ==
    /\ codec' = [ctx |-> ctx, str |-> SpanToStringOf(ctx, heap), back |-> -1]
    /\ UNCHANGED <<impl, cancelled, now, heap, ctxs, invs, calls, streams, faults>>

\* FlowTrace.StringToSpan(val) of the string SpanToString returned.
StringToSpan ==
    /\ codec.back = -1
    /\ codec.ctx # NilCtx
    /\ IF codec.str = EmptyString
       THEN /\ codec' = [codec EXCEPT !.back = 0]
            /\ UNCHANGED heap
       ELSE /\ heap' = Append(heap, Unmarshal(codec.str))
            /\ codec' = [codec EXCEPT !.back = Len(heap) + 1]
    /\ UNCHANGED <<impl, cancelled, now, ctxs, invs, calls, streams, faults>>

-----------------------------------------------------------------------------
(* The host program and the clock. *)

\* ctx = SetTrace(ctx, opts...), before the host starts its first traced
\* operation: the host goes on with the derived context.
SetTrace(ctx, o) ==
    /\ invs = <<>>
    /\ ctxs = {Background}
    /\ ctxs' = {SetTraceCtx(ctx, o)}
    /\ UNCHANGED <<impl, cancelled, now, heap, invs, calls, streams, codec, faults>>

\* The clock advances: within the second, or to a later second.
Tick(t) ==
    /\ t \in Times
    /\ TimeLess(now, t)
    /\ now' = t
    /\ UNCHANGED <<impl, cancelled, heap, ctxs, invs, calls, streams, codec, faults>>

-----------------------------------------------------------------------------
(* Specifications. *)

\* The host cancels the context the contexts of its calls derive from.
Cancel ==
    /\ ~cancelled
    /\ cancelled' = TRUE
    /\ UNCHANGED <<impl, now, heap, ctxs, invs, calls, streams, codec, faults>>

NoCodec == [ctx |-> NilCtx, str |-> EmptyString, back |-> 0]

Init ==
    /\ impl \in {1, 2}
    /\ now = [sec |-> 0, us |-> 0]
    /\ heap = <<>>
    /\ ctxs = {Background}
    /\ invs = <<>>
    /\ calls = <<>>
    /\ streams = <<>>
    /\ codec = NoCodec
    /\ faults = 0
    /\ cancelled = FALSE

\* The run id the generator returns next when ids come in increasing order.
NextID == { <<96 + Cardinality(UsedIDs \ {Empty}) + 1>> }

\* The states GetState(ctx) gives a caller of StartSpan: nil, or the context's own.
StateArgs(ctx) == {0, ctx.st}

\* The bounds of a behaviour of non-streaming spans.
Bounded == faults' <= MaxFaults /\ Len(invs') <= MaxSpans /\ Len(calls') <= MaxCalls

\* Whether the next input may be an unusual one, and the sink outcomes left.
Unusual == IF faults < MaxFaults THEN BOOLEAN ELSE {FALSE}

Outcomes == IF faults < MaxFaults THEN SinkOutcomes ELSE {"ok"}

UpdateOutcomes == Outcomes \ {"echo"}

MayStart == Len(invs) < MaxSpans

MayCall == Len(calls) < MaxCalls

\* Non-streaming spans: the handler's OnStart / OnEnd / OnError and FlowTrace.
Next ==
    \/ /\ MayStart
       /\ \E ctx \in ctxs, infoNil \in Unusual, marshalFails \in Unusual,
             runID \in NextID, outcome \in Outcomes :
               OnStart(ctx, infoNil, ~marshalFails, runID, outcome) /\ Bounded
    \/ \E i \in 1..Len(invs), marshalFails \in Unusual, outcome \in UpdateOutcomes :
            OnEnd(i, ~marshalFails, outcome) /\ Bounded
    \/ \E i \in 1..Len(invs), outcome \in UpdateOutcomes : OnError(i, outcome) /\ Bounded
    \/ /\ MayStart /\ MayCall
       /\ \E ctx \in ctxs, runID \in NextID, outcome \in Outcomes :
            \E a \in StateArgs(ctx) : StartSpan(ctx, a, runID, outcome) /\ Bounded
    \/ /\ MayStart /\ MayCall
       /\ \E ctx \in ctxs, runID \in NextID, outcome \in Outcomes :
            \E a \in StateArgs(ctx) : StartSpan_flow_trace(ctx, a, runID, outcome) /\ Bounded
    \/ /\ MayCall
       /\ \E i \in 1..Len(invs), outcome \in UpdateOutcomes : FinishSpan(i, outcome) /\ Bounded
    \/ \E ctx \in ctxs, o \in OptChoices : SetTrace(ctx, o)

Spec == Init /\ [][Next]_vars

\* The bounds of a behaviour with streaming spans.
BoundedStream ==
    /\ faults' <= MaxFaults
    /\ Len(invs') <= MaxStreamSpans
    /\ Len(calls') <= MaxCalls
    /\ Len(streams') <= MaxStreams

MayStartStream == Len(invs) < MaxStreamSpans

\* The lengths of the streams: empty, or MaxChunks chunks.
Chunks == {0, MaxChunks}

\* The options set before a streaming span: a session name.
StreamOptChoices == { o \in OptChoices : o.TraceID = Empty }

Terms == IF faults < MaxFaults THEN StreamTerms ELSE {"eof"}

Aggs == IF faults < MaxFaults THEN AggOutcomes ELSE {"ok", "nil"}

\* Streaming spans and the non-streaming spans started under them.
NextStream ==
    \/ /\ MayStartStream
       /\ \E ctx \in ctxs, infoNil \in Unusual, runID \in NextID, n \in Chunks, term \in Terms :
            OnStartWithStreamInput(ctx, infoNil, runID, n, term) /\ BoundedStream
    \/ /\ MayStartStream
       /\ \E ctx \in ctxs, infoNil \in Unusual, runID \in NextID, n \in Chunks, term \in Terms :
            OnStartWithStreamInput_2(ctx, infoNil, runID, n, term) /\ BoundedStream
    \/ \E k \in 1..Len(streams) : OnStartWithStreamInput_return(k)
    \/ \E k \in 1..Len(streams) : Recv(k)
    \/ \E k \in 1..Len(streams), agg \in Aggs, outcome \in Outcomes :
            InputDrained(k, agg, outcome) /\ BoundedStream
    \/ \E k \in 1..Len(streams), agg \in Aggs, outcome \in Outcomes :
            InputDrained_2(k, agg, outcome) /\ BoundedStream
    \/ \E i \in 1..Len(invs), n \in Chunks, term \in Terms :
            OnEndWithStreamOutput(i, n, term) /\ BoundedStream
    \/ \E k \in 1..Len(streams), agg \in Aggs, outcome \in UpdateOutcomes :
            OutputDrained(k, agg, outcome) /\ BoundedStream
    \/ /\ MayStartStream
       /\ \E ctx \in ctxs, infoNil \in Unusual, runID \in NextID, outcome \in Outcomes :
            OnStart(ctx, infoNil, TRUE, runID, outcome) /\ BoundedStream
    \/ \E i \in 1..Len(invs), outcome \in UpdateOutcomes :
            OnEnd(i, TRUE, outcome) /\ BoundedStream
    \/ \E i \in 1..Len(invs), outcome \in UpdateOutcomes : OnError(i, outcome) /\ BoundedStream
    \/ \E ctx \in ctxs, o \in StreamOptChoices : SetTrace(ctx, o)
    \/ /\ MayStartStream /\ faults < MaxFaults
       /\ \E ctx \in ctxs : Unseen(ctx) /\ BoundedStream

SpecStream == Init /\ [][NextStream]_vars

\* Start order against dotted order: the clock advances, run ids come in any
\* order, and no two spans start at the same reading of the clock.
FreshClock == \A i \in 1..Len(invs) : invs[i].t # now

AnyID == RunIDs \ UsedIDs

NextOrder ==
    \/ /\ MayStart /\ FreshClock
       /\ \E ctx \in ctxs, runID \in AnyID : OnStart(ctx, FALSE, TRUE, runID, "ok")
    \/ /\ MayStart /\ FreshClock
       /\ \E ctx \in ctxs, runID \in AnyID :
            \E a \in StateArgs(ctx) : StartSpan(ctx, a, runID, "ok")
    \/ /\ MayStart /\ FreshClock
       /\ \E ctx \in ctxs, runID \in AnyID :
            \E a \in StateArgs(ctx) : StartSpan_flow_trace(ctx, a, runID, "ok")
    \/ \E t \in Times : Tick(t)

SpecOrder == Init /\ [][NextOrder]_vars

\* The serialized span handle: the context carries no state, or any state
\* over a small alphabet that has the characters a JSON string escapes.
CodecStrings ==
    {Empty, <<97>>, <<CharQuote>>, <<CharBackslash>>, <<CharBackslash, CharQuote>>,
     <<97, CharDot, CharBackslash>>}

CodecStates ==
    [TraceID : CodecStrings, ParentRunID : CodecStrings, ParentDottedOrder : CodecStrings]

InitCodec ==
    /\ impl \in {1, 2}
    /\ now = [sec |-> 0, us |-> 0]
    /\ \/ heap = <<>> /\ ctxs = {Background}
       \/ \E st \in CodecStates : heap = <<st>> /\ ctxs = {[Background EXCEPT !.st = 1]}
    /\ invs = <<>>
    /\ calls = <<>>
    /\ streams = <<>>
    /\ codec = NoCodec
    /\ faults = 0
    /\ cancelled = FALSE

NextCodec ==
    \/ \E ctx \in ctxs : codec = NoCodec /\ SpanToString(ctx)
    \/ StringToSpan

SpecCodec == InitCodec /\ [][NextCodec]_vars

\* The bounds of a behaviour in which the host may cancel.
BoundedCancel ==
    /\ faults' <= MaxFaults
    /\ Len(invs') <= MaxCancelSpans
    /\ Len(calls') <= MaxCalls
    /\ Len(streams') <= MaxStreams

MayStartCancel == Len(invs) < MaxCancelSpans

\* The five handlers, with a host that cancels its context at any moment.
NextCancel ==
    \/ Cancel
    \/ /\ MayStartCancel
       /\ \E ctx \in ctxs, runID \in NextID, n \in Chunks, term \in Terms :
            OnStartWithStreamInput(ctx, FALSE, runID, n, term) /\ BoundedCancel
    \/ /\ MayStartCancel
       /\ \E ctx \in ctxs, runID \in NextID, n \in Chunks, term \in Terms :
            OnStartWithStreamInput_2(ctx, FALSE, runID, n, term) /\ BoundedCancel
    \/ \E k \in 1..Len(streams) : OnStartWithStreamInput_return(k)
    \/ \E k \in 1..Len(streams) : Recv(k)
    \/ \E k \in 1..Len(streams), agg \in Aggs, outcome \in Outcomes :
            InputDrained(k, agg, outcome) /\ BoundedCancel
    \/ \E k \in 1..Len(streams), agg \in Aggs, outcome \in Outcomes :
            InputDrained_2(k, agg, outcome) /\ BoundedCancel
    \/ \E i \in 1..Len(invs), n \in Chunks, term \in Terms :
            OnEndWithStreamOutput(i, n, term) /\ BoundedCancel
    \/ \E k \in 1..Len(streams), agg \in Aggs, outcome \in UpdateOutcomes :
            OutputDrained(k, agg, outcome) /\ BoundedCancel
    \/ /\ MayStartCancel
       /\ \E ctx \in ctxs, marshalFails \in Unusual, runID \in NextID, outcome \in Outcomes :
            OnStart(ctx, FALSE, ~marshalFails, runID, outcome) /\ BoundedCancel
    \/ \E i \in 1..Len(invs), marshalFails \in Unusual, outcome \in UpdateOutcomes :
            OnEnd(i, ~marshalFails, outcome) /\ BoundedCancel
    \/ \E i \in 1..Len(invs), outcome \in UpdateOutcomes : OnError(i, outcome) /\ BoundedCancel

SpecCancel == Init /\ [][NextCancel]_vars

\* The bounds of a behaviour of streaming spans with fair goroutines.
BoundedLive ==
    /\ faults' <= MaxFaults
    /\ Len(invs') <= MaxLiveSpans
    /\ Len(calls') <= MaxCalls

MayStartLive == Len(invs) < MaxLiveSpans

\* The streams of such a behaviour: an input and an output per span.
LiveStreams == 1..(2 * MaxLiveSpans)

\* The steps of the goroutine draining stream k.
InputTask(k) ==
    \/ \E agg \in Aggs, outcome \in Outcomes : InputDrained(k, agg, outcome) /\ BoundedLive
    \/ \E agg \in Aggs, outcome \in Outcomes : InputDrained_2(k, agg, outcome) /\ BoundedLive

OutputTask(k) ==
    \E agg \in Aggs, outcome \in UpdateOutcomes : OutputDrained(k, agg, outcome) /\ BoundedLive

\* Streaming spans alone: the two streaming handlers and their goroutines.
NextLive ==
    \/ /\ MayStartLive
       /\ \E ctx \in ctxs, runID \in NextID, n \in Chunks, term \in Terms :
            OnStartWithStreamInput(ctx, FALSE, runID, n, term) /\ BoundedLive
    \/ /\ MayStartLive
       /\ \E ctx \in ctxs, runID \in NextID, n \in Chunks, term \in Terms :
            OnStartWithStreamInput_2(ctx, FALSE, runID, n, term) /\ BoundedLive
    \/ \E k \in LiveStreams : OnStartWithStreamInput_return(k)
    \/ \E k \in LiveStreams : Recv(k)
    \/ \E k \in LiveStreams : InputTask(k)
    \/ \E i \in 1..Len(invs), n \in Chunks, term \in Terms :
            OnEndWithStreamOutput(i, n, term) /\ BoundedLive
    \/ \E k \in LiveStreams : OutputTask(k)

\* The Go scheduler runs every goroutine that can run: a goroutine in its
\* receive loop takes its next turn, and one that has left the loop runs to
\* its end.  The host is under no such obligation: it calls the handlers when
\* it likes, or never.
FairTasks ==
    \A k \in LiveStreams :
        /\ WF_vars(Recv(k))
        /\ WF_vars(InputTask(k))
        /\ WF_vars(OutputTask(k))

SpecLive == Init /\ [][NextLive]_vars /\ FairTasks

\* A state serialized by another process: the span p of trace ExplicitTrace.
SeedState ==
    [TraceID |-> ExplicitTrace, ParentRunID |-> <<112>>,
     ParentDottedOrder |-> DottedOrderOf(Empty, [sec |-> 0, us |-> 0], <<112>>)]

\* Trace options seeded from it: all three fields, or the trace id alone,
\* or none of them (a session name only).
SeedChoices ==
    { [set |-> TRUE, SessionName |-> "", TraceID |-> t, ParentID |-> q[1],
       ParentDottedOrder |-> q[2]] :
        t \in {Empty, SeedState.TraceID},
        q \in {<<Empty, Empty>>, <<SeedState.ParentRunID, SeedState.ParentDottedOrder>>} }

\* Spans of the handler on a context whose options carry a serialized state.
NextSeed ==
    \/ \E ctx \in ctxs, o \in SeedChoices : SetTrace(ctx, o)
    \/ /\ MayStart
       /\ \E ctx \in ctxs, marshalFails \in Unusual, runID \in NextID, outcome \in Outcomes :
               OnStart(ctx, FALSE, ~marshalFails, runID, outcome) /\ Bounded
    \/ \E i \in 1..Len(invs), outcome \in UpdateOutcomes : OnEnd(i, TRUE, outcome) /\ Bounded

SpecSeed == Init /\ [][NextSeed]_vars

-----------------------------------------------------------------------------
(* The runs sent and the tree of spans. *)

Spans == 1..Len(invs)

\* The CreateRun / UpdateRun calls made for operation i.
CreateOf(i) == { c \in 1..Len(calls) : calls[c].op = "CreateRun" /\ calls[c].inv = i }

UpdateOf(i) == { c \in 1..Len(calls) : calls[c].op = "UpdateRun" /\ calls[c].inv = i }

HasRun(i) == CreateOf(i) # {}

\* The Run of operation i as the sink received it.
Sent(i) == calls[CHOOSE c \in CreateOf(i) : TRUE].run

\* The sink's response left the Run of operation i as it was sent.
Kept(i) == \A c \in CreateOf(i) : calls[c].resp = calls[c].run

\* A is the nearest enclosing span of B: B read the state A's start published.
Encloses(A, B) == A # B /\ invs[A].pub # 0 /\ invs[B].addr = invs[A].pub

\* B minted a run and no span encloses it.
Root(B) == invs[B].id # Empty /\ ~ \E A \in Spans : Encloses(A, B)

\* S1 and S2 were started from the same parent context.
Siblings(S1, S2) ==
    /\ S1 # S2
    /\ invs[S1].in = invs[S2].in
    /\ invs[S1].addr = invs[S2].addr \/ (Root(S1) /\ Root(S2))

OwnSegment(B) == Segment(Sent(B).StartTime, invs[B].id)

-----------------------------------------------------------------------------
(* Properties. *)

\* C1: for every span B whose nearest enclosing span is A, the dotted order of
\* B's Run is A's dotted order, then '.', then B's own segment
\* <timestamp>Z<run id>; a root span's dotted order is its own segment.  (A's
\* dotted order is the one A sent, for a sink that did not rewrite it.)
C1_ChildExtendsParent ==
    \A B \in Spans : HasRun(B) =>
        /\ Root(B) => Sent(B).DottedOrder = OwnSegment(B)
        /\ \A A \in Spans : Encloses(A, B) /\ HasRun(A) /\ Kept(A) =>
              Sent(B).DottedOrder = Sent(A).DottedOrder \o <<CharDot>> \o OwnSegment(B)

\* C2: in a call tree started from a context with no explicit trace id, every
\* Run sent carries the same TraceID, the root run's ID: a root's TraceID is
\* its own ID and a child's TraceID is its parent's.
C2_TraceIDIsRootID ==
    \A B \in Spans : HasRun(B) /\ invs[B].in.opts.TraceID = Empty =>
        /\ Root(B) => Sent(B).TraceID = Sent(B).ID
        /\ \A A \in Spans : Encloses(A, B) /\ HasRun(A) => Sent(B).TraceID = Sent(A).TraceID

\* C3: of two sibling spans, the one started first has the strictly smaller
\* dotted order, whatever their start times and run ids.
C3_SiblingsInStartOrder ==
    \A S1 \in Spans, S2 \in Spans :
        S1 < S2 /\ Siblings(S1, S2) /\ HasRun(S1) /\ HasRun(S2) =>
            StrLess(Sent(S1).DottedOrder, Sent(S2).DottedOrder)

\* C4: the state a span reads at entry is the state its nearest enclosing
\* span's start published, or the initial state at a root: no sibling's start
\* changes what another sibling reads.
C4_ReadsWhatParentPublished ==
    \A B \in Spans : invs[B].id # Empty =>
        /\ \A A \in Spans : Encloses(A, B) => invs[B].read = invs[A].pubval
        /\ Root(B) /\ invs[B].op \in HandlerOps => invs[B].read = InitState(invs[B].in.opts)

\* C5: when each of n non-streaming spans has been started once by OnStart and
\* ended once by OnEnd or OnError, the sink has received exactly n CreateRun and
\* n UpdateRun calls.  (The counts do not depend on the order of the ends.)
C5_OneCreateOneUpdatePerSpan ==
    (\A i \in Spans : invs[i].op = "OnStart" /\ ~invs[i].infoNil /\ invs[i].ended) =>
        /\ Cardinality({ c \in 1..Len(calls) : calls[c].op = "CreateRun" }) = Len(invs)
        /\ Cardinality({ c \in 1..Len(calls) : calls[c].op = "UpdateRun" }) = Len(invs)

\* A start handler was called with a nil RunInfo in this step.
NilStart == Len(invs') = Len(invs) + 1 /\ invs'[Len(invs')].infoNil

\* An end handler was called for operation i, whose RunInfo is nil, in this step.
NilEnd(i) == invs[i].infoNil /\ ~invs[i].ended /\ invs'[i].ended

\* The step added or changed no trace state, made no sink call and started no
\* goroutine: a stream it was handed is closed and nothing drains it.
NoTrace ==
    /\ heap' = heap
    /\ ctxs' = ctxs
    /\ calls' = calls
    /\ \/ streams' = streams
       \/ /\ Len(streams') = Len(streams) + 1
          /\ streams'[Len(streams')].pc = "none"
          /\ streams'[Len(streams')].closed

\* C6: with a nil RunInfo, OnStart, OnEnd, OnError, OnStartWithStreamInput and
\* OnEndWithStreamOutput return the very context they were given, add or change
\* no trace state, and make no CreateRun and no UpdateRun call, then or later.
C6_NilInfoIsNoOp ==
    /\ [](\A c \in 1..Len(calls) : ~invs[calls[c].inv].infoNil)
    /\ [][NilStart => NoTrace /\ invs'[Len(invs')].ret
                              /\ invs'[Len(invs')].out = invs'[Len(invs')].in]_vars
    /\ [][\A i \in Spans : NilEnd(i) => NoTrace /\ invs'[i].endout = invs[i].in]_vars

\* All five handlers have been called with a nil RunInfo: a start and an end
\* of one operation, one of them a streaming handler.
C6_Witness ==
    \E i \in Spans, k \in 1..Len(streams) :
        invs[i].infoNil /\ invs[i].ended /\ streams[k].inv = i /\ streams[k].closed

\* C7: when CreateRun returns an error, OnStart and FlowTrace.StartSpan still
\* return a derived context carrying the new state {traceID, parentRunID = the
\* minted run id, parentDottedOrder = the run's dotted order}, and no error.
C7_StartSurvivesCreateError ==
    \A i \in Spans :
        invs[i].op \in {"OnStart", "StartSpan"} /\ HasRun(i)
        /\ (\E c \in CreateOf(i) : calls[c].err) =>
            /\ ~invs[i].err
            /\ invs[i].out # NilCtx
            /\ invs[i].pub # 0
            /\ invs[i].out.st = invs[i].pub
            /\ invs[i].pubval = [TraceID |-> Sent(i).TraceID,
                                 ParentRunID |-> invs[i].id,
                                 ParentDottedOrder |-> Sent(i).DottedOrder]

\* C8: StringToSpan(SpanToString(ctx)) yields a state whose TraceID,
\* ParentRunID and ParentDottedOrder are those of the state ctx carries; when
\* ctx carries none, the string is empty and the state given back is nil.
C8_RoundTrip ==
    /\ codec.ctx # NilCtx /\ GetState(codec.ctx) = 0 => codec.str = EmptyString
    /\ codec.ctx # NilCtx /\ codec.back # -1 =>
          IF GetState(codec.ctx) = 0
          THEN codec.back = 0
          ELSE codec.back # 0 /\ heap[codec.back] = heap[GetState(codec.ctx)]

\* C9: the context OnStartWithStreamInput returns carries ParentRunID = the
\* minted run id and ParentDottedOrder = the run's full dotted order (the order
\* read at entry, then the run's own segment), the one sent in its CreateRun,
\* so a child started while the stream drains has that ParentRunID and a
\* dotted order prefixed by the run's.  (For a sink that did not rewrite the
\* run it was sent.)
C9_StreamStartPublishesOrder ==
    \A i \in Spans :
        invs[i].op = "OnStartWithStreamInput" /\ ~invs[i].infoNil /\ invs[i].ret
        /\ (HasRun(i) => Kept(i)) =>
            /\ invs[i].pub # 0
            /\ invs[i].pubval.ParentRunID = invs[i].id
            /\ \E t \in Times :
                  invs[i].pubval.ParentDottedOrder =
                      DottedOrderOf(invs[i].read.ParentDottedOrder, t, invs[i].id)
            /\ HasRun(i) =>
                  /\ invs[i].pubval.ParentDottedOrder = Sent(i).DottedOrder
                  /\ \A B \in Spans : Encloses(i, B) /\ HasRun(B) =>
                        /\ Sent(B).ParentRunID = invs[i].id
                        /\ IsPrefix(Sent(i).DottedOrder \o <<CharDot>>, Sent(B).DottedOrder)

\* C10: for an input stream of k chunks and then end-of-stream, the goroutine
\* sends exactly one CreateRun for the span, only after all k chunks were
\* received, with the k chunks as input.  (Exactly one is asked only of a
\* behaviour in which nothing failed: no error or panic in the aggregation, no
\* error from the sink.)
C10_OneCreateAfterAllChunks ==
    \A k \in 1..Len(streams) :
        LET st == streams[k]
        IN  st.dir = "in" /\ st.pc # "none" /\ st.term = "eof" =>
              /\ HasRun(st.inv) =>
                    /\ Len(st.got) = st.n
                    /\ Sent(st.inv).Inputs = [j \in 1..st.n |-> j]
              /\ st.pc = "done" /\ faults = 0 =>
                    Cardinality(CreateOf(st.inv)) = 1

\* C11: when the input stream of OnStartWithStreamInput yields an error other
\* than end-of-stream, no CreateRun is ever sent for that span, and the stream
\* is closed once the goroutine has ended.
C11_NoCreateAfterReceiveError ==
    \A k \in 1..Len(streams) :
        LET st == streams[k]
        IN  st.dir = "in" /\ st.pc # "none" /\ st.term = "err" =>
              /\ ~HasRun(st.inv)
              /\ st.pc = "done" => st.closed

\* The goroutine of operation i's stream in direction dir has ended, after a
\* stream that ended with end-of-stream.
Finished(i, dir) ==
    \E k \in 1..Len(streams) :
        /\ streams[k].inv = i /\ streams[k].dir = dir
        /\ streams[k].term = "eof" /\ streams[k].pc = "done"

\* C12: for a span started with OnStartWithStreamInput and ended with
\* OnEndWithStreamOutput, both streams giving their chunks and then
\* end-of-stream, in a context whose trace options set a session name: once
\* both goroutines have ended the sink has received exactly one CreateRun,
\* whose SessionName is that session name, and exactly two UpdateRun calls.
\* (Of a behaviour in which nothing failed.)
C12_OneCreateTwoUpdates ==
    \A i \in Spans :
        /\ invs[i].op = "OnStartWithStreamInput" /\ ~invs[i].infoNil
        /\ invs[i].in.opts.SessionName # ""
        /\ Finished(i, "in") /\ Finished(i, "out")
        /\ faults = 0
        => /\ Cardinality(CreateOf(i)) = 1
           /\ Sent(i).SessionName = invs[i].in.opts.SessionName
           /\ Cardinality(UpdateOf(i)) = 2

\* The UpdateRun calls the output goroutine of stream k has made.
StreamUpdates(k) ==
    { c \in UpdateOf(streams[k].inv) : calls[c].by = "OnEndWithStreamOutput" }

\* What the non-streaming end handlers hand to the sink: their own ctx, so
\* that the call fails once the host has cancelled.
EndsPassCallerCtx ==
    \A c \in 1..Len(calls) : calls[c].by \in {"OnEnd", "OnError"} =>
        /\ calls[c].ctx = "ctx"
        /\ calls[c].done => cancelled /\ calls[c].err

\* What the output goroutine hands to the sink: context.Background(), which
\* is never done, and only once the stream is drained.
DetachedAfterDrain(k) ==
    /\ StreamUpdates(k) # {} => streams[k].pc = "done" /\ Len(streams[k].got) = streams[k].n
    /\ \A c \in StreamUpdates(k) : calls[c].ctx = "background" /\ ~calls[c].done

TaskCalls(k) ==
    { c \in 1..Len(calls) :
        /\ calls[c].inv = streams[k].inv
        /\ calls[c].by = (IF streams[k].dir = "in" THEN "OnStartWithStreamInput"
                                                    ELSE "OnEndWithStreamOutput") }

\* C14: in both streaming handlers the stream is closed on every exit path:
\* by the handler itself when the RunInfo is nil or the context carries no
\* trace state (no goroutine is started), and by the goroutine's deferred
\* function when it ends, after end-of-stream, a receive error, an aggregation
\* error or a panic; a panic is recovered there and the goroutine just ends.
C14_StreamClosedOnEveryExit ==
    \A k \in 1..Len(streams) :
        LET st == streams[k]
        IN  /\ st.pc = "none" => st.closed /\ st.exit = ""
            /\ st.pc = "done" => st.closed /\ st.exit \in {"return", "panic"}
            /\ st.pc = "recv" => st.exit = ""
            /\ st.exit = "panic" => st.pc = "done" /\ st.closed /\ TaskCalls(k) = {}

\* A goroutine panicked and its stream is closed, and an end handler that
\* found no trace state closed the stream it was handed.
C14_Witness ==
    \E k \in 1..Len(streams), j \in 1..Len(streams) :
        /\ streams[k].exit = "panic" /\ streams[k].closed
        /\ invs[streams[j].inv].op = "Unseen" /\ streams[j].pc = "none" /\ streams[j].closed

\* A streaming handler was called in this step and started a goroutine.
Spawned == Len(streams') = Len(streams) + 1 /\ streams'[Len(streams')].pc = "recv"

\* The step received no chunk and made no sink call: the streams there were
\* are as they were, and the new one has yielded nothing yet.
NothingAwaited ==
    /\ calls' = calls
    /\ \A k \in 1..Len(streams) : streams'[k] = streams[k]
    /\ streams'[Len(streams')].got = <<>>

\* C15: OnStartWithStreamInput and OnEndWithStreamOutput return without
\* waiting for a stream element or a sink call: the call that starts the
\* goroutine receives nothing and calls no sink, the return of
\* OnStartWithStreamInput is possible wherever its goroutine stands, and
\* OnEndWithStreamOutput has returned in the very step that started its
\* goroutine.  Each call is handed one stream and starts at most one
\* goroutine for it (exactly one for a traced call).
C15_ReturnsWithoutWaiting ==
    /\ [](\A k \in 1..Len(streams) :
            streams[k].dir = "in" /\ ~invs[streams[k].inv].ret =>
                ENABLED OnStartWithStreamInput_return(k))
    /\ [][Spawned => NothingAwaited]_vars
    /\ [][\A i \in Spans : ~invs[i].ended /\ invs'[i].ended /\ Spawned =>
                streams'[Len(streams')].inv = i /\ streams'[Len(streams')].dir = "out"]_vars
    /\ [][Len(streams') <= Len(streams) + 1]_vars
    /\ [](\A k \in 1..Len(streams), j \in 1..Len(streams) :
            k # j /\ streams[k].inv = streams[j].inv => streams[k].dir # streams[j].dir)
    /\ [](\A i \in Spans : invs[i].op = "OnStartWithStreamInput" /\ ~invs[i].infoNil =>
            \E k \in 1..Len(streams) :
                streams[k].inv = i /\ streams[k].dir = "in" /\ streams[k].pc # "none")

\* Both handlers have returned for a span whose two streams have not yielded
\* a chunk yet (each has chunks to yield), and the sink has seen no call.
C15_Witness ==
    \E i \in Spans, k \in 1..Len(streams), j \in 1..Len(streams) :
        /\ invs[i].ret /\ invs[i].ended /\ calls = <<>>
        /\ streams[k].inv = i /\ streams[k].dir = "in" /\ streams[k].pc = "recv"
        /\ streams[k].n > 0 /\ streams[k].got = <<>>
        /\ streams[j].inv = i /\ streams[j].dir = "out" /\ streams[j].pc = "recv"
        /\ streams[j].n > 0 /\ streams[j].got = <<>>

\* C16: a span goes Pending, Started, Ended: an UpdateRun for a run id is
\* attempted only after the CreateRun for that run id was attempted; in no
\* interleaving is an UpdateRun issued before, or without, the CreateRun.
C16_UpdateOnlyAfterCreate ==
    \A u \in 1..Len(calls) : calls[u].op = "UpdateRun" =>
        \E c \in 1..(u - 1) : calls[c].op = "CreateRun" /\ calls[c].id = calls[u].id

\* C17: whatever the sink returns, no run id is sent in more than one
\* CreateRun call and no run id is patched by more than one UpdateRun call.
C17_EachCallAtMostOncePerRun ==
    \A c \in 1..Len(calls), d \in 1..Len(calls) :
        c # d /\ calls[c].op = calls[d].op /\ calls[c].id # Empty =>
            calls[c].id # calls[d].id

\* B was started from a context that the start of span A returned: the
\* context carries the state A published.
StartedUnder(A, B) == A # B /\ invs[A].pub # 0 /\ invs[B].in.st = invs[A].pub

\* C18: every Run sent has ParentRunID = the run id of its nearest enclosing
\* span, the span whose start published the context it was started from, and
\* no ParentRunID exactly when there is no such span; for OnStart, for the
\* streaming start and for FlowTrace.StartSpan alike.
C18_ParentIsEnclosingSpan ==
    \A B \in Spans : HasRun(B) =>
        /\ \A A \in Spans : StartedUnder(A, B) => Sent(B).ParentRunID = invs[A].id
        /\ (Sent(B).ParentRunID = Empty) <=> ~ \E A \in Spans : StartedUnder(A, B)

\* C19: every UpdateRun sent by OnEnd, OnError or OnEndWithStreamOutput
\* patches the run id that the start of the very span being ended minted:
\* never the enclosing span's id and never the empty id, also when the start
\* returned without publishing a new state.
C19_EndPatchesOwnRun ==
    \A u \in 1..Len(calls) :
        /\ calls[u].op = "UpdateRun"
        /\ calls[u].by \in {"OnEnd", "OnError", "OnEndWithStreamOutput"}
        => /\ calls[u].id # Empty
           /\ calls[u].id = invs[calls[u].inv].id

\* C20: an input or output that cannot be serialised does not stop a
\* non-streaming span: every OnStart with a RunInfo sends its CreateRun and
\* publishes a new state, and every OnEnd or OnError that ends such a span
\* sends its UpdateRun.
C20_SpanSurvivesMarshalError ==
    \A i \in Spans : invs[i].op = "OnStart" /\ ~invs[i].infoNil =>
        /\ HasRun(i)
        /\ invs[i].pub # 0 /\ invs[i].out.st = invs[i].pub
        /\ invs[i].ended => UpdateOf(i) # {}

\* String s ends with string x.
EndsWith(s, x) == Len(s) >= Len(x) /\ SubSeq(s, Len(s) - Len(x) + 1, Len(s)) = x

\* C21: the state a span's start publishes is a function of what the start
\* computed locally, whatever the sink did with the CreateRun: ParentRunID is
\* the minted run id, ParentDottedOrder is the dotted order computed from the
\* order read at entry, the start time and the run id (so it ends with the run
\* id), and TraceID is the trace id the run was sent with.  Two executions
\* that differ only in the sink's outcome then publish the same state.
C21_PublishedStateIgnoresSink ==
    \A i \in Spans : invs[i].op \in {"OnStart", "StartSpan"} /\ HasRun(i) =>
        /\ invs[i].pub # 0
        /\ invs[i].pubval.TraceID = Sent(i).TraceID
        /\ invs[i].pubval.ParentRunID = invs[i].id
        /\ invs[i].pubval.ParentDottedOrder = Sent(i).DottedOrder
        /\ EndsWith(invs[i].pubval.ParentDottedOrder, invs[i].pubval.ParentRunID)

\* The state object ctx carries has the parent id and the parent dotted order
\* of the options o, and their trace id when they have one (a span started on
\* the object may since have written its run id into an empty TraceID).
CarriesInitState(ctx, o) ==
    /\ ctx.st \in 1..Len(heap)
    /\ heap[ctx.st].ParentRunID = o.ParentID
    /\ heap[ctx.st].ParentDottedOrder = o.ParentDottedOrder
    /\ o.TraceID # Empty => heap[ctx.st].TraceID = o.TraceID

\* C22: GetOrInitState gives back the context and its state object as they
\* are when the context carries a state; otherwise it gives a derived context
\* (the same options) carrying an initial state whose TraceID, ParentRunID and
\* ParentDottedOrder are the trace id, parent id and parent dotted order of the
\* options, all empty without options.  A span started by OnStart on a context
\* seeded with a serialized state is then sent as a child of the serialized
\* span, in its trace.
C22_GetOrInitState ==
    \A i \in Spans : invs[i].op = "OnStart" /\ ~invs[i].infoNil =>
        LET in == invs[i].in
        IN  /\ invs[i].out.opts = in.opts
            /\ in.st # 0 /\ invs[i].id = Empty => invs[i].out = in
            /\ in.st # 0 /\ invs[i].id # Empty => invs[i].addr = in.st
            /\ in.st = 0 /\ invs[i].id = Empty =>
                  invs[i].out.st # 0 /\ CarriesInitState(invs[i].out, in.opts)
            /\ in.st = 0 /\ invs[i].id # Empty =>
                  /\ invs[i].read = [TraceID |-> in.opts.TraceID,
                                     ParentRunID |-> in.opts.ParentID,
                                     ParentDottedOrder |-> in.opts.ParentDottedOrder]
                  /\ in.opts = NoOpts => invs[i].read = ZeroState
                  /\ HasRun(i) =>
                        /\ Sent(i).ParentRunID = in.opts.ParentID
                        /\ Sent(i).DottedOrder =
                              DottedOrderOf(in.opts.ParentDottedOrder, Sent(i).StartTime, invs[i].id)
                        /\ in.opts.TraceID # Empty => Sent(i).TraceID = in.opts.TraceID

\* A span was started on a context seeded with the whole serialized state and
\* sent as a child of the serialized span; another one was started on the
\* context the first returned; a third found its input unserialisable.
C22_Witness ==
    \E i \in Spans, j \in Spans, k \in Spans :
        /\ invs[i].in.st = 0 /\ HasRun(i)
        /\ invs[i].in.opts.ParentID = SeedState.ParentRunID
        /\ Sent(i).ParentRunID = SeedState.ParentRunID
        /\ Sent(i).TraceID = SeedState.TraceID
        /\ invs[j].in.st # 0 /\ invs[j].id # Empty
        /\ invs[k].id = Empty

\* The timestamp part of the segment operation i sent: the characters of its
\* own segment before the 'Z'.
TimestampOf(i) == SubSeq(OwnSegment(i), 1, Len(OwnSegment(i)) - 1 - Len(invs[i].id))

\* C23: the timestamp part of a dotted-order segment has one width and
\* microsecond resolution: of two runs started at least one microsecond apart,
\* in the same second or not, the earlier one has the strictly smaller
\* timestamp part, of the same length.
C23_TimestampOrderPreserving ==
    \A i \in Spans, j \in Spans :
        HasRun(i) /\ HasRun(j) /\ TimeLess(Sent(i).StartTime, Sent(j).StartTime) =>
            /\ Len(TimestampOf(i)) = Len(TimestampOf(j))
            /\ StrLess(TimestampOf(i), TimestampOf(j))

\* A is a proper ancestor of B in the tree of spans: it encloses B, or it is
\* an ancestor of the span that does.
RECURSIVE Ancestor(_, _)
Ancestor(A, B) ==
    \/ Encloses(A, B)
    \/ \E P \in Spans : P < B /\ Encloses(P, B) /\ Ancestor(A, P)

\* The depth of B in the tree: 1 for a root.
Depth(B) == 1 + Cardinality({ A \in Spans : Ancestor(A, B) })

\* The number of segments of a dotted order: one more than its dots.
NumSegments(d) == 1 + Cardinality({ n \in 1..Len(d) : d[n] = CharDot })

\* The dotted order d without its last segment (and without the dot before it).
RECURSIVE DropLastSegment(_)
DropLastSegment(d) ==
    IF d = Empty THEN Empty
    ELSE IF d[Len(d)] = CharDot THEN SubSeq(d, 1, Len(d) - 1)
    ELSE DropLastSegment(SubSeq(d, 1, Len(d) - 1))

\* S1 and S2 have the same parent span, or are both roots.
SameParent(S1, S2) ==
    /\ S1 # S2
    /\ \A A \in Spans : Encloses(A, S1) <=> Encloses(A, S2)

\* C24: over the Runs of a tree of spans of any shape, streaming spans
\* included: A is a proper ancestor of B exactly when A's dotted order followed
\* by '.' is a prefix of B's; the number of segments of a dotted order is the
\* depth of its span; two spans are siblings exactly when their dotted orders
\* agree on all but the last segment.
C24_DottedOrderEncodesTree ==
    \A A \in Spans, B \in Spans : HasRun(A) /\ HasRun(B) =>
        /\ Ancestor(A, B) <=> IsPrefix(Sent(A).DottedOrder \o <<CharDot>>, Sent(B).DottedOrder)
        /\ NumSegments(Sent(B).DottedOrder) = Depth(B)
        /\ A # B =>
              (SameParent(A, B) <=>
                   DropLastSegment(Sent(A).DottedOrder) = DropLastSegment(Sent(B).DottedOrder))

\* An end handler was called in this step for operation i with a RunInfo and
\* a context that carries no trace state.
UntracedEnd(i) ==
    ~invs[i].infoNil /\ invs[i].out.st = 0 /\ ~invs[i].ended /\ invs'[i].ended

\* C25: OnEnd, OnError and OnEndWithStreamOutput called with a context that
\* carries no trace state make no sink call and start no goroutine, then or
\* later, return the context they were given, and (the streaming one) close
\* the output stream.
C25_NoStateEndIsUntraced ==
    /\ [][\A i \in Spans : UntracedEnd(i) => NoTrace /\ invs'[i].endout = invs[i].out]_vars
    /\ [](\A c \in 1..Len(calls) : invs[calls[c].inv].op # "Unseen")
    /\ [](\A k \in 1..Len(streams) : invs[streams[k].inv].op = "Unseen" =>
              /\ streams[k].pc = "none"
              /\ streams[k].closed
              /\ streams[k].got = <<>>)

\* The end of an operation the handler never saw start was reported through
\* OnEndWithStreamOutput, on the stateless context the operation ran with.
C25_Witness ==
    \E i \in Spans, k \in 1..Len(streams) :
        /\ invs[i].op = "Unseen" /\ invs[i].ended
        /\ invs[i].in.st = 0 /\ invs[i].endout = invs[i].in
        /\ streams[k].inv = i /\ streams[k].dir = "out"

\* An end operation (OnEnd, OnError, OnEndWithStreamOutput, FinishSpan) was
\* called for operation i in this step.
EndOf(i) == ~invs[i].ended /\ invs'[i].ended

\* The end of a span changes no state object and derives no context, and the
\* caller is left with the context it passed.
EndsPublishNothing ==
    \A i \in Spans : EndOf(i) =>
        heap' = heap /\ ctxs' = ctxs /\ invs'[i].endout = invs[i].out

\* S2 was started from the context of span P, from which S1, since ended, was
\* started before it.
SiblingAfterEnd(P, S1, S2) ==
    /\ S1 < S2 /\ invs[S1].ended
    /\ StartedUnder(P, S1) /\ invs[S2].in = invs[S1].in
    /\ HasRun(S1) /\ HasRun(S2)

\* C26: OnEnd, OnError, OnEndWithStreamOutput and FlowTrace.FinishSpan publish
\* no trace state and leave the context as they received it; so a span started
\* from the parent's context after a sibling has ended is sent as a child of
\* the parent, with the ended sibling's ParentRunID and its dotted order up to
\* the last segment, and never as a child of the ended sibling.
C26_EndLeavesContext ==
    /\ [][EndsPublishNothing]_vars
    /\ [](\A P \in Spans, S1 \in Spans, S2 \in Spans : SiblingAfterEnd(P, S1, S2) =>
              /\ Sent(S2).ParentRunID = invs[P].id
              /\ Sent(S2).ParentRunID = Sent(S1).ParentRunID
              /\ Sent(S2).ParentRunID # invs[S1].id
              /\ DropLastSegment(Sent(S2).DottedOrder) = DropLastSegment(Sent(S1).DottedOrder)
              /\ Sent(S2).DottedOrder # Sent(S1).DottedOrder)

\* The goroutine of stream k is running.
Running(k) == k \in 1..Len(streams) /\ streams[k].pc = "recv"

\* The goroutine of stream k has ended and the stream is closed.
Terminated(k) == k \in 1..Len(streams) /\ streams[k].pc = "done" /\ streams[k].closed

\* The receive errors among the first n streams.
RECURSIVE TermFaults(_)
TermFaults(n) == IF n = 0 THEN 0 ELSE TermCost(streams[n].term) + TermFaults(n - 1)

\* Nothing went wrong but receive errors: every aggregation returned its
\* result, with a map where the code needs one, and the sink accepted every call.
OnlyReceiveErrors ==
    /\ faults = TermFaults(Len(streams))
    /\ \A k \in 1..Len(streams) : streams[k].exit # "panic"

C28_ForcedTraceID ==
    \A B \in Spans : HasRun(B) /\ invs[B].in.opts.TraceID # Empty =>
        /\ Sent(B).TraceID = invs[B].in.opts.TraceID
        /\ Sent(B).ID = invs[B].id
        /\ Sent(B).ID # invs[B].in.opts.TraceID

====
